---------------------------- MODULE Spec2Model ----------------------------
(***************************************************************************)
(* A model of lib/driver/llvm.cc: the one-time backend registration        *)
(* (init_llvm), the toolkit-version table (vptx), the text rewriting       *)
(* helper (find_and_replace), the lowering entry point with its            *)
(* post-processing (llir_to_ptx) and the module loader (ptx_to_cumodule).  *)
(*                                                                         *)
(* Text.  A std::string is a sequence of tokens, each token standing for   *)
(* the run of characters written in it.  The tokens are chosen so that     *)
(* every marker the code searches for is a sequence of whole tokens and    *)
(* cannot start or end inside one: "\t" occurs only at the start of        *)
(* "\t// ", a token after "begin" or "end" that starts with a blank is     *)
(* " inline asm" (or the single blank that follows a directive name), and  *)
(* ".version" and ".target" are tokens of their own.  Searching and        *)
(* replacing on tokens is therefore searching and replacing on the         *)
(* characters.  Positions are 0-based as in the code.                      *)
(***************************************************************************)
EXTENDS Integers, Sequences, FiniteSets, TLC

VARIABLES
    \* ---- llir_to_ptx (one call) ----
    cc,            \* argument: compute capability
    version,       \* argument: toolkit version
    module,        \* argument: what the generator will emit for the llvm::Module
    ptx,           \* local `ptx` (line 99); 0 before vptx has returned
    result,        \* local `result` (line 139): the assembly text
    pc,            \* position of the call
    error,         \* what() of the exception that left the call, or "none"
    last,          \* the most recent find_and_replace call: its argument text,
                   \* its markers, its replacement and what it returned
    \* ---- init_llvm ----
    init,          \* static bool init (line 54)
    registered,    \* how many times each LLVMInitializeNVPTX* step has run
    tpc,           \* per thread: position inside init_llvm
    sawInit,       \* per thread: this thread has itself stored or loaded init = true
    calls,         \* per thread: calls of init_llvm started so far
    \* ---- ptx_to_cumodule (a sequence of calls sharing /tmp) ----
    fs,            \* the temporary directory: file name -> contents or Absent
    lpc,           \* position of the current call
    lptx,          \* argument `ptx` of the current call
    lcc,           \* argument `cc` of the current call
    probeStatus,   \* exit status of `ptxas --version` in this call, -1 before
    use_system_ptxas, \* local (line 153)
    fsrc,          \* local: suffix chosen by mkstemp(_fsrc), 0 before
    flog,          \* local: suffix chosen by mkstemp(_flog), 0 before
    err,           \* local `err` (line 170): status of system(cmd), -1 before
    cmd,           \* local `cmd` (line 169)
    ret,           \* the CUmodule returned, or NoModule
    exc,           \* exception in flight or propagated, or "none"
    out,           \* what the call wrote to std::cout / std::cerr, in order
    trace,         \* the external steps the call has performed, in order
    fsAtEntry,     \* the temporary directory as it was when the call began
    ncalls         \* calls of ptx_to_cumodule started so far

textVars == <<cc, version, module, ptx, result, pc, error, last>>
initVars == <<init, registered, tpc, sawInit, calls>>
loadVars == <<fs, lpc, lptx, lcc, probeStatus, use_system_ptxas, fsrc, flog, err, cmd,
              ret, exc, out, trace, fsAtEntry, ncalls>>
vars == <<textVars, initVars, loadVars>>

-----------------------------------------------------------------------------
(* Bounds of the model *)

\* toolkit versions checked lie within Span of the lowest and highest threshold
Span == 950
\* inline-asm / instruction lines in a generated module body
MaxBodyLines == 3
\* tokens in an arbitrary text handed to the post-processing
MaxText == 4
\* tokens in an arbitrary text handed to the marker stripping
StripLen == 7
\* threads calling init_llvm, and calls per thread
NumThreads == 3
CallsPerThread == 2
\* distinct suffixes mkstemp can choose, calls of ptx_to_cumodule, distinct inputs
NumNames == 2
MaxCalls == 2
NumPtx == 2

-----------------------------------------------------------------------------
(* std::string *)

\* size_t arithmetic wraps; the width is scaled down (texts are far shorter)
SizeMod == 2^16
npos == SizeMod - 1

Min(a, b) == IF a < b THEN a ELSE b

Texts(alphabet, n) == UNION {[1..k -> alphabet] : k \in 0..n}

\* pat occurs in str at 0-based position i
MatchAt(str, pat, i) ==
    /\ i + Len(pat) <= Len(str)
    /\ \A k \in 1..Len(pat) : str[i + k] = pat[k]

\* std::string::find(pat, pos): first position >= pos where pat occurs, else npos
RECURSIVE find(_, _, _)
find(str, pat, pos) ==
    IF pos + Len(pat) > Len(str) THEN npos
    ELSE IF MatchAt(str, pat, pos) THEN pos
    ELSE find(str, pat, pos + 1)

\* std::string::replace(pos, n, t), pos <= size: n is clipped to size - pos
replace(str, pos, n, t) ==
    LET len == Min(n, Len(str) - pos)
    IN  SubSeq(str, 1, pos) \o t \o SubSeq(str, pos + len + 1, Len(str))

DigitChars == <<"0", "1", "2", "3", "4", "5", "6", "7", "8", "9">>

\* std::to_string(int): decimal digits, most significant first
RECURSIVE to_string(_)
to_string(n) ==
    IF n < 0 THEN <<"-">> \o to_string(-n)
    ELSE IF n < 10 THEN <<DigitChars[n + 1]>>
    ELSE to_string(n \div 10) \o <<DigitChars[(n % 10) + 1]>>

-----------------------------------------------------------------------------
(* find_and_replace, lines 67-74 *)

\* a plausible slip: the newline that ends the span is kept
find_and_replace_keeps_newline(str, begin, end, target) ==
    LET start_replace == find(str, begin, 0)
        end_replace   == find(str, end, start_replace)
    IN  IF start_replace = npos
        THEN [str |-> str, ret |-> FALSE]
        ELSE [str |-> replace(str, start_replace,
                              (end_replace - start_replace) % SizeMod, target),
              ret |-> TRUE]

find_and_replace(str, begin, end, target) ==
    LET start_replace == find(str, begin, 0)
        end_replace   == find(str, end, start_replace)
    IN  IF start_replace = npos
        THEN [str |-> str, ret |-> FALSE]
        ELSE [str |-> replace(str, start_replace,
                              (end_replace + 1 - start_replace) % SizeMod, target),
              ret |-> TRUE]

-----------------------------------------------------------------------------
(* vptx, lines 76-85 *)

\* a plausible slip: one threshold tested with > instead of >=
vptx_off_by_one(v) ==
    IF v >= 11030 THEN [thrown |-> FALSE, value |-> 73, what |-> "none"]
    ELSE IF v >= 11020 THEN [thrown |-> FALSE, value |-> 72, what |-> "none"]
    ELSE IF v >= 11010 THEN [thrown |-> FALSE, value |-> 71, what |-> "none"]
    ELSE IF v > 11000 THEN [thrown |-> FALSE, value |-> 70, what |-> "none"]
    ELSE IF v >= 10020 THEN [thrown |-> FALSE, value |-> 65, what |-> "none"]
    ELSE IF v >= 10010 THEN [thrown |-> FALSE, value |-> 64, what |-> "none"]
    ELSE IF v >= 10000 THEN [thrown |-> FALSE, value |-> 63, what |-> "none"]
    ELSE [thrown |-> TRUE, value |-> 0, what |-> "Triton requires CUDA 10+"]

vptx(v) ==
    IF v >= 11030 THEN [thrown |-> FALSE, value |-> 73, what |-> "none"]
    ELSE IF v >= 11020 THEN [thrown |-> FALSE, value |-> 72, what |-> "none"]
    ELSE IF v >= 11010 THEN [thrown |-> FALSE, value |-> 71, what |-> "none"]
    ELSE IF v >= 11000 THEN [thrown |-> FALSE, value |-> 70, what |-> "none"]
    ELSE IF v >= 10020 THEN [thrown |-> FALSE, value |-> 65, what |-> "none"]
    ELSE IF v >= 10010 THEN [thrown |-> FALSE, value |-> 64, what |-> "none"]
    ELSE IF v >= 10000 THEN [thrown |-> FALSE, value |-> 63, what |-> "none"]
    ELSE [thrown |-> TRUE, value |-> 0, what |-> "Triton requires CUDA 10+"]

-----------------------------------------------------------------------------
(* init_llvm, lines 53-62 *)

Steps == {"TargetInfo", "Target", "TargetMC", "AsmPrinter"}
Threads == 1..NumThreads

\* the value of `init` and of the registration counts after a call of init_llvm
\* that no other thread interleaves with
init_llvm(i, reg) ==
    IF ~i THEN [init |-> TRUE, registered |-> [s \in Steps |-> reg[s] + 1]]
    ELSE [init |-> i, registered |-> reg]

InitIdle ==
    /\ tpc = [t \in Threads |-> "idle"]
    /\ sawInit = [t \in Threads |-> FALSE]
    /\ calls = [t \in Threads |-> 0]

\* the process before any registration, or after an earlier complete one
InitFlag ==
    \/ init = FALSE /\ registered = [s \in Steps |-> 0]
    \/ init = TRUE /\ registered = [s \in Steps |-> 1]

-----------------------------------------------------------------------------
(* llir_to_ptx, lines 87-145 *)

max_nvvm_cc == 75
max_nvvm_ptx == 64

NL == <<"\n">>
VersionMarker == <<".version">>
TargetMarker == <<".target">>
BeginMarker == <<"\t// ", "begin", " inline asm">>
EndMarker == <<"\t// ", "end", " inline asm">>

\* line 97
sm(c) == <<"sm_">> \o to_string(c)
\* line 105
proc(c) == <<"sm_">> \o to_string(Min(c, max_nvvm_cc))
\* line 107: the instruction-set version the generator is configured with
features(p) == Min(p, max_nvvm_ptx)

\* a plausible slip: the directive is written from the clamped feature
VersionDirective_clamped(p) ==
    <<".version", " ">> \o to_string(features(p) \div 10) \o <<".">>
        \o to_string(features(p) % 10) \o NL

\* lines 100, 101, 140: the replacement for the .version line
VersionDirective(p) ==
    LET ptx_major == p \div 10
        ptx_minor == p % 10
    IN  <<".version", " ">> \o to_string(ptx_major) \o <<".">> \o to_string(ptx_minor) \o NL

\* a plausible slip: the directive is written from the generator's processor
TargetDirective_clamped(c) == <<".target", " ">> \o proc(c) \o NL

\* line 141: the replacement for the .target line
TargetDirective(c) == <<".target", " ">> \o sm(c) \o NL

\* The text the NVPTX backend emits (lines 122-139) for processor p and
\* instruction-set feature f: its header comment, the .version, .target and
\* .address_size directives, then the module's body, every inline-asm block
\* between a begin and an end marker line.
LineKinds == {"asm_begin", "asm_end", "insn"}
BodyLine(k) ==
    CASE k = "asm_begin" -> BeginMarker \o NL
      [] k = "asm_end"   -> EndMarker \o NL
      [] OTHER           -> <<"ret;">> \o NL

RECURSIVE BodyText(_)
BodyText(lines) ==
    IF lines = <<>> THEN <<>> ELSE BodyLine(Head(lines)) \o BodyText(Tail(lines))

Emitted(p, f, m) ==
    <<"// Generated by LLVM NVPTX Back-End", "\n">>
      \o <<".version", " ">> \o to_string(f \div 10) \o <<".">> \o to_string(f % 10) \o NL
      \o <<".target", " ">> \o p \o (IF m.debug THEN <<", debug">> ELSE <<>>) \o NL
      \o <<".address_size 64", "\n">>
      \o BodyText(m.lines)

Modules == [lines : Texts(LineKinds, MaxBodyLines), debug : BOOLEAN]

NoCall == [str |-> <<>>, begin |-> <<>>, end |-> <<>>, target |-> <<>>,
           ret |-> FALSE, made |-> FALSE]
Called(str, begin, end, target, r) ==
    [str |-> str, begin |-> begin, end |-> end, target |-> target,
     ret |-> r.ret, made |-> TRUE]

\* line 99
CallVptx ==
    /\ pc = "vptx"
    /\ LET r == vptx(version)
       IN  IF r.thrown
           THEN pc' = "thrown" /\ error' = r.what /\ ptx' = ptx
           ELSE pc' = "emit" /\ error' = error /\ ptx' = r.value
    /\ UNCHANGED <<cc, version, module, result, last, initVars, loadVars>>

\* lines 103-139: configure the generator, register the backend, emit
Emit ==
    /\ pc = "emit"
    /\ LET i == init_llvm(init, registered)
       IN  init' = i.init /\ registered' = i.registered
    /\ result' = Emitted(proc(cc), features(ptx), module)
    /\ pc' = "patch_version"
    /\ UNCHANGED <<cc, version, module, ptx, error, last, tpc, sawInit, calls, loadVars>>

\* line 140
PatchVersion ==
    /\ pc = "patch_version"
    /\ LET t == VersionDirective(ptx)
           r == find_and_replace(result, VersionMarker, NL, t)
       IN  result' = r.str /\ last' = Called(result, VersionMarker, NL, t, r)
    /\ pc' = "patch_target"
    /\ UNCHANGED <<cc, version, module, ptx, error, initVars, loadVars>>

\* line 141
PatchTarget ==
    /\ pc = "patch_target"
    /\ LET t == TargetDirective(cc)
           r == find_and_replace(result, TargetMarker, NL, t)
       IN  result' = r.str /\ last' = Called(result, TargetMarker, NL, t, r)
    /\ pc' = "strip_begin"
    /\ UNCHANGED <<cc, version, module, ptx, error, initVars, loadVars>>

\* line 142: one evaluation of the loop condition
StripBegin ==
    /\ pc = "strip_begin"
    /\ LET r == find_and_replace(result, BeginMarker, NL, <<>>)
       IN  /\ result' = r.str
           /\ last' = Called(result, BeginMarker, NL, <<>>, r)
           /\ pc' = IF r.ret THEN "strip_begin" ELSE "strip_end"
    /\ UNCHANGED <<cc, version, module, ptx, error, initVars, loadVars>>

\* lines 143, 144: one evaluation of the loop condition; the return when it fails
StripEnd ==
    /\ pc = "strip_end"
    /\ LET r == find_and_replace(result, EndMarker, NL, <<>>)
       IN  /\ result' = r.str
           /\ last' = Called(result, EndMarker, NL, <<>>, r)
           /\ pc' = IF r.ret THEN "strip_end" ELSE "done"
    /\ UNCHANGED <<cc, version, module, ptx, error, initVars, loadVars>>

-----------------------------------------------------------------------------
(* init_llvm called from several threads, lines 53-62 *)

\* `init` is a plain bool read and written without synchronisation: a thread
\* that has not itself seen it true may still load false after another
\* thread's store
LoadInit(t) == IF init /\ ~sawInit[t] THEN {TRUE, FALSE} ELSE {init}

AfterStep(s) ==
    CASE s = "TargetInfo" -> "Target"
      [] s = "Target"     -> "TargetMC"
      [] s = "TargetMC"   -> "AsmPrinter"
      [] OTHER            -> "set"

\* a thread calls init_llvm
Enter(t) ==
    /\ tpc[t] = "idle"
    /\ calls[t] < CallsPerThread
    /\ tpc' = [tpc EXCEPT ![t] = "check"]
    /\ calls' = [calls EXCEPT ![t] = @ + 1]
    /\ UNCHANGED <<init, registered, sawInit, textVars, loadVars>>

\* line 55
Check(t) ==
    /\ tpc[t] = "check"
    /\ \E seen \in LoadInit(t) :
         /\ tpc' = [tpc EXCEPT ![t] = IF seen THEN "idle" ELSE "TargetInfo"]
         /\ sawInit' = [sawInit EXCEPT ![t] = seen]
    /\ UNCHANGED <<init, registered, calls, textVars, loadVars>>

\* lines 56-59, one registration at a time
Register(t) ==
    /\ tpc[t] \in Steps
    /\ registered' = [registered EXCEPT ![tpc[t]] = @ + 1]
    /\ tpc' = [tpc EXCEPT ![t] = AfterStep(tpc[t])]
    /\ UNCHANGED <<init, sawInit, calls, textVars, loadVars>>

\* line 60
SetInit(t) ==
    /\ tpc[t] = "set"
    /\ init' = TRUE
    /\ sawInit' = [sawInit EXCEPT ![t] = TRUE]
    /\ tpc' = [tpc EXCEPT ![t] = "idle"]
    /\ UNCHANGED <<registered, calls, textVars, loadVars>>

-----------------------------------------------------------------------------
(* ptx_to_cumodule, lines 147-196 *)

Names == 1..NumNames
Ptxs == 1..NumPtx

AbsentFile == [kind |-> "absent", of |-> 0]
EmptyFile == [kind |-> "empty", of |-> 0]
PtxFile(p) == [kind |-> "ptx", of |-> p]
LogFile(p) == [kind |-> "log", of |-> p]
ObjFile(p) == [kind |-> "cubin", of |-> p]

\* /tmp/triton_k_<n>, /tmp/triton_l_<n> and /tmp/triton_k_<n>.o
EmptyDir == [k |-> [n \in Names |-> AbsentFile],
             l |-> [n \in Names |-> AbsentFile],
             o |-> [n \in Names |-> AbsentFile]]

NoModule == [kind |-> "none", of |-> 0, via |-> "none"]
Module(p, via) == [kind |-> "module", of |-> p, via |-> via]
NoCmd == [gpu |-> 0, src |-> 0, obj |-> 0, log |-> 0]

\* exit statuses of a child process: success, failure, executable not found
ExitStatuses == {0, 1, 127}

\* a plausible slip: only a missing executable counts as a failed probe
UsePtxas_unless_missing(status) == status # 127

\* line 153
UsePtxas(status) == status = 0

\* dispatch::cuModuleLoad on a path: a missing file is an error other than
\* invalid assembly; an object may load, be rejected as invalid, or fail otherwise
DriverLoadFile(file) ==
    IF file.kind = "absent" THEN {"other"} ELSE {"ok", "invalid_ptx", "other"}

\* dispatch::cuModuleLoadDataEx on the text
DriverLoadData == {"ok", "invalid_ptx", "other"}

Cout(p) == [stream |-> "cout", ptx |-> p, msg |-> ""]
Cerr(m) == [stream |-> "cerr", ptx |-> 0, msg |-> m]

\* a plausible slip: the handler reports the failure without the text
catch_invalid_ptx_without_text(o, p) ==
    Append(o, Cerr("It appears that Triton produced invalid PTX code:"))

\* lines 192, 193
catch_invalid_ptx(o, p) ==
    Append(Append(o, Cout(p)), Cerr("It appears that Triton produced invalid PTX code:"))

LoadLocals == <<lptx, lcc, probeStatus, use_system_ptxas, fsrc, flog, err, cmd,
                ret, exc, out, fsAtEntry, ncalls>>

\* line 153: the version probe
Probe ==
    /\ lpc = "probe"
    /\ \E st \in ExitStatuses :
         /\ probeStatus' = st
         /\ use_system_ptxas' = UsePtxas(st)
         /\ lpc' = IF UsePtxas(st) THEN "mkstemp" ELSE "jit"
    /\ trace' = Append(trace, "probe")
    /\ UNCHANGED <<fs, lptx, lcc, fsrc, flog, err, cmd, ret, exc, out, fsAtEntry, ncalls,
                   textVars, initVars>>

\* lines 158-163: both temporary files are created, under names not in use
Mkstemp ==
    /\ lpc = "mkstemp"
    /\ \E a \in {n \in Names : fs.k[n].kind = "absent"},
          b \in {n \in Names : fs.l[n].kind = "absent"} :
         /\ fs' = [fs EXCEPT !.k[a] = EmptyFile, !.l[b] = EmptyFile]
         /\ fsrc' = a
         /\ flog' = b
    /\ lpc' = "write"
    /\ trace' = Append(trace, "mkstemp")
    /\ UNCHANGED <<lptx, lcc, probeStatus, use_system_ptxas, err, cmd, ret, exc, out,
                   fsAtEntry, ncalls, textVars, initVars>>

\* lines 164-166
WriteSource ==
    /\ lpc = "write"
    /\ fs' = [fs EXCEPT !.k[fsrc] = PtxFile(lptx)]
    /\ lpc' = "system"
    /\ trace' = Append(trace, "write")
    /\ UNCHANGED <<LoadLocals, textVars, initVars>>

\* lines 167-170: the shell redirects the diagnostics into the log file and
\* runs the assembler, which writes the object only when it succeeds
System ==
    /\ lpc = "system"
    /\ cmd' = [gpu |-> lcc, src |-> fsrc, obj |-> fsrc, log |-> flog]
    /\ \E st \in ExitStatuses :
         /\ err' = st
         /\ fs' = [fs EXCEPT !.l[flog] = LogFile(fs.k[fsrc].of),
                             !.o[fsrc] = IF st = 0 THEN ObjFile(fs.k[fsrc].of) ELSE @]
    /\ lpc' = "load"
    /\ trace' = Append(trace, "ptxas")
    /\ UNCHANGED <<lptx, lcc, probeStatus, use_system_ptxas, fsrc, flog, ret, exc, out,
                   fsAtEntry, ncalls, textVars, initVars>>

\* lines 171, 172: the file-based load; an exception leaves the block, the
\* handler of line 191 taking only invalid_ptx
LoadFile ==
    /\ lpc = "load"
    /\ \E o \in DriverLoadFile(fs.o[fsrc]) :
         IF o = "ok"
         THEN ret' = Module(fs.o[fsrc].of, "file") /\ exc' = exc /\ lpc' = "unlink"
         ELSE ret' = ret /\ exc' = o
              /\ lpc' = IF o = "invalid_ptx" THEN "catch" ELSE "thrown"
    /\ trace' = Append(trace, "cuModuleLoad")
    /\ UNCHANGED <<fs, lptx, lcc, probeStatus, use_system_ptxas, fsrc, flog, err, cmd, out,
                   fsAtEntry, ncalls, textVars, initVars>>

\* lines 173-175
Unlink ==
    /\ lpc = "unlink"
    /\ fs' = [fs EXCEPT !.k[fsrc] = AbsentFile, !.l[flog] = AbsentFile]
    /\ lpc' = "returned"
    /\ trace' = Append(trace, "unlink")
    /\ UNCHANGED <<LoadLocals, textVars, initVars>>

\* lines 179-189: the data-based load
Jit ==
    /\ lpc = "jit"
    /\ \E o \in DriverLoadData :
         IF o = "ok"
         THEN ret' = Module(lptx, "data") /\ exc' = exc /\ lpc' = "returned"
         ELSE ret' = ret /\ exc' = o
              /\ lpc' = IF o = "invalid_ptx" THEN "catch" ELSE "thrown"
    /\ trace' = Append(trace, "cuModuleLoadDataEx")
    /\ UNCHANGED <<fs, lptx, lcc, probeStatus, use_system_ptxas, fsrc, flog, err, cmd, out,
                   fsAtEntry, ncalls, textVars, initVars>>

\* lines 191-195: print the text and the diagnostic, rethrow
Catch ==
    /\ lpc = "catch"
    /\ out' = catch_invalid_ptx(out, lptx)
    /\ lpc' = "thrown"
    /\ UNCHANGED <<fs, lptx, lcc, probeStatus, use_system_ptxas, fsrc, flog, err, cmd, ret,
                   exc, trace, fsAtEntry, ncalls, textVars, initVars>>

-----------------------------------------------------------------------------
(* Inputs and specifications *)

Thresholds == {10000, 10010, 10020, 11000, 11010, 11020, 11030}
Versions == (10000 - Span)..(11030 + Span)
CCs == {70, 75, 86}

TextIdle ==
    /\ cc = 75 /\ version = 11030 /\ module = [lines |-> <<>>, debug |-> FALSE]
    /\ ptx = 0 /\ result = <<>> /\ pc = "idle" /\ error = "none" /\ last = NoCall

LoadIdle ==
    /\ fs = EmptyDir /\ lpc = "idle" /\ lptx = 1 /\ lcc = 75
    /\ probeStatus = -1 /\ use_system_ptxas = FALSE /\ fsrc = 0 /\ flog = 0
    /\ err = -1 /\ cmd = NoCmd /\ ret = NoModule /\ exc = "none" /\ out = <<>>
    /\ trace = <<>> /\ fsAtEntry = EmptyDir /\ ncalls = 0

\* vptx on every toolkit version of the range
InitVptx ==
    /\ version \in Versions /\ cc = 75 /\ module = [lines |-> <<>>, debug |-> FALSE]
    /\ ptx = 0 /\ result = <<>> /\ pc = "vptx" /\ error = "none" /\ last = NoCall
    /\ init = FALSE /\ registered = [s \in Steps |-> 0]
    /\ InitIdle /\ LoadIdle
SpecVptx == InitVptx /\ [][CallVptx]_vars

\* one call of llir_to_ptx
InitPtx ==
    /\ cc \in CCs
    /\ version \in Thresholds \cup {9050, 10015, 11040}
    /\ module \in Modules
    /\ ptx = 0 /\ result = <<>> /\ pc = "vptx" /\ error = "none" /\ last = NoCall
    /\ InitFlag /\ InitIdle /\ LoadIdle
NextPtx == CallVptx \/ Emit \/ PatchVersion \/ PatchTarget \/ StripBegin \/ StripEnd
SpecPtx == InitPtx /\ [][NextPtx]_vars

\* the post-processing of lines 140-143 on an arbitrary short text or an emitted one
PostAlphabet == {".version", ".target", "\t// ", "begin", "end", " inline asm", "\n", "ret;"}
InitPost ==
    /\ cc \in {70, 86}
    /\ version = (IF cc = 86 THEN 11030 ELSE 10000)
    /\ ptx = vptx(version).value
    /\ module = [lines |-> <<>>, debug |-> FALSE]
    /\ result \in Texts(PostAlphabet, MaxText)
                   \cup {Emitted(proc(cc), features(ptx), m) : m \in Modules}
    /\ pc = "patch_version" /\ error = "none" /\ last = NoCall
    /\ init = TRUE /\ registered = [s \in Steps |-> 1]
    /\ InitIdle /\ LoadIdle
NextPost == PatchVersion \/ PatchTarget \/ StripBegin \/ StripEnd
SpecPost == InitPost /\ [][NextPost]_vars

\* the marker stripping of lines 142, 143 on an arbitrary text
StripAlphabet == {"\t// ", "begin", "end", " inline asm", "\n"}
InitStrip ==
    /\ cc = 75 /\ version = 11030 /\ ptx = 73
    /\ module = [lines |-> <<>>, debug |-> FALSE]
    /\ result \in Texts(StripAlphabet, StripLen)
    /\ pc = "strip_begin" /\ error = "none" /\ last = NoCall
    /\ init = TRUE /\ registered = [s \in Steps |-> 1]
    /\ InitIdle /\ LoadIdle
NextStrip == StripBegin \/ StripEnd
SpecStrip == InitStrip /\ [][NextStrip]_vars

\* threads calling init_llvm in a fresh process
InitInit ==
    /\ init = FALSE /\ registered = [s \in Steps |-> 0]
    /\ InitIdle /\ TextIdle /\ LoadIdle
NextInit == \E t \in Threads : Enter(t) \/ Check(t) \/ Register(t) \/ SetInit(t)
SpecInit == InitInit /\ [][NextInit]_vars

\* the next call of ptx_to_cumodule, in the same process and temporary directory
NextCall ==
    /\ lpc \in {"returned", "thrown"}
    /\ ncalls < MaxCalls
    /\ ncalls' = ncalls + 1
    /\ lptx' \in Ptxs
    /\ lcc' \in CCs
    /\ lpc' = "probe"
    /\ probeStatus' = -1 /\ use_system_ptxas' = FALSE /\ fsrc' = 0 /\ flog' = 0
    /\ err' = -1 /\ cmd' = NoCmd /\ ret' = NoModule /\ exc' = "none" /\ out' = <<>>
    /\ trace' = <<>> /\ fsAtEntry' = fs
    /\ UNCHANGED <<fs, textVars, initVars>>

InitLoad ==
    /\ fs = EmptyDir /\ lpc = "probe" /\ lptx \in Ptxs /\ lcc \in CCs
    /\ probeStatus = -1 /\ use_system_ptxas = FALSE /\ fsrc = 0 /\ flog = 0
    /\ err = -1 /\ cmd = NoCmd /\ ret = NoModule /\ exc = "none" /\ out = <<>>
    /\ trace = <<>> /\ fsAtEntry = EmptyDir /\ ncalls = 1
    /\ init = FALSE /\ registered = [s \in Steps |-> 0]
    /\ InitIdle /\ TextIdle
NextLoad ==
    \/ Probe \/ Mkstemp \/ WriteSource \/ System \/ LoadFile \/ Unlink
    \/ Jit \/ Catch \/ NextCall
SpecLoad == InitLoad /\ [][NextLoad]_vars

-----------------------------------------------------------------------------
(* Properties *)

Range(q) == {q[i] : i \in 1..Len(q)}

\* pat occurs somewhere in s
Occurs(s, pat) == \E i \in 0..Len(s) : MatchAt(s, pat, i)

Least(S) == CHOOSE x \in S : \A y \in S : x <= y

\* the value a sequence of digit tokens denotes, -1 if it is not one
IsDigits(d) == Len(d) > 0 /\ \A i \in 1..Len(d) : \E n \in 1..10 : DigitChars[n] = d[i]
DigitOf(c) == (CHOOSE n \in 1..10 : DigitChars[n] = c) - 1
RECURSIVE Decimal(_)
Decimal(d) ==
    IF ~IsDigits(d) THEN -1
    ELSE IF Len(d) = 1 THEN DigitOf(d[1])
    ELSE 10 * Decimal(SubSeq(d, 1, Len(d) - 1)) + DigitOf(d[Len(d)])

\* the first line of text that starts with the directive name, without its
\* newline; <<>> if there is none
DirectiveLine(text, name) ==
    LET starts == {i \in 1..Len(text) :
                     text[i] = name /\ (i = 1 \/ text[i - 1] = "\n")}
    IN  IF starts = {} THEN <<>>
        ELSE LET i == Least(starts)
                 ends == {j \in i..Len(text) : text[j] = "\n"}
                 j == IF ends = {} THEN Len(text) + 1 ELSE Least(ends)
             IN  SubSeq(text, i, j - 1)

\* the table of the specification: threshold, instruction-set version
ClaimedTable == {<<11030, 73>>, <<11020, 72>>, <<11010, 71>>, <<11000, 70>>,
                 <<10020, 65>>, <<10010, 64>>, <<10000, 63>>}
\* the entry of the highest threshold that is <= v
Applies(e, v) == e[1] <= v /\ \A f \in ClaimedTable : f[1] <= v => f[1] <= e[1]

\* C1: once vptx has been called on a toolkit version v, it has returned the
\* instruction-set version of the highest threshold <= v of the table, and for
\* v < 10000 it has thrown "Triton requires CUDA 10+" and returned no value.
C1_VptxTable ==
    pc # "vptx" =>
        IF version < 10000
        THEN pc = "thrown" /\ error = "Triton requires CUDA 10+" /\ ptx = 0
        ELSE /\ pc = "emit" /\ error = "none"
             /\ \E e \in ClaimedTable : Applies(e, version) /\ ptx = e[2]

\* a version between two thresholds has been resolved to the lower one
C1_Witness == pc = "emit" /\ version = 10015 /\ ptx = 64

\* C2: the text llir_to_ptx returns has as its first .target directive line
\* ".target sm_<cc>" with the requested cc, whatever processor the generator
\* was configured with.
C2_TargetIsRequested ==
    pc = "done" =>
        LET line == DirectiveLine(result, ".target")
        IN  /\ Len(line) > 3
            /\ SubSeq(line, 1, 3) = <<".target", " ", "sm_">>
            /\ Decimal(SubSeq(line, 4, Len(line))) = cc

\* capability 86, above the generator's ceiling, with the debug suffix emitted
C2_Witness ==
    /\ pc = "done" /\ cc = 86 /\ module.debug /\ Len(module.lines) > 0
    /\ DirectiveLine(result, ".target") = <<".target", " ", "sm_", "8", "6">>

\* C3: the text llir_to_ptx returns has as its first .version directive line
\* ".version <p/10>.<p%10>", p being the table's version for the toolkit
\* version, not the min(p, 64) the generator was configured with.
C3_VersionIsUnclamped ==
    pc = "done" =>
        LET line == DirectiveLine(result, ".version")
        IN  \E e \in ClaimedTable :
              /\ Applies(e, version)
              /\ Len(line) > 2
              /\ SubSeq(line, 1, 2) = <<".version", " ">>
              /\ \E k \in 3..Len(line) :
                    /\ line[k] = "."
                    /\ Decimal(SubSeq(line, 3, k - 1)) = e[2] \div 10
                    /\ Decimal(SubSeq(line, k + 1, Len(line))) = e[2] % 10

\* capability 70, toolkit 11030: .version 7.3 and .target sm_70
C3_Witness ==
    /\ pc = "done" /\ cc = 70 /\ version = 11030
    /\ DirectiveLine(result, ".version") = <<".version", " ", "7", ".", "3">>
    /\ DirectiveLine(result, ".target") = <<".target", " ", "sm_", "7", "0">>

\* C9: the marker stripping ends with a text in which neither marker occurs,
\* so that neither loop of a second pass would find anything to remove.
C9_StrippedHasNoMarker ==
    pc = "done" =>
        /\ ~Occurs(result, BeginMarker)
        /\ ~Occurs(result, EndMarker)
        /\ ~find_and_replace(result, BeginMarker, NL, <<>>).ret
        /\ ~find_and_replace(result, EndMarker, NL, <<>>).ret

\* C10: a call of find_and_replace on a text s leaves s unchanged and returns
\* false when the marker does not occur; otherwise it returns true, keeps
\* everything before the first occurrence of the marker and, when a newline
\* follows, puts the replacement in place of the span up to and including that
\* newline and keeps everything after it.
C10_OnlyTheSpanChanges ==
    last.made =>
        LET s == last.str
            occ == {i \in 0..Len(s) : MatchAt(s, last.begin, i)}
        IN  IF occ = {}
            THEN result = s /\ ~last.ret
            ELSE LET i == Least(occ)
                     nls == {j \in i..(Len(s) - 1) : s[j + 1] = "\n"}
                 IN  /\ last.ret
                     /\ Len(result) >= i
                     /\ SubSeq(result, 1, i) = SubSeq(s, 1, i)
                     /\ nls # {} =>
                          result = SubSeq(s, 1, i) \o last.target
                                     \o SubSeq(s, Least(nls) + 2, Len(s))

\* a marker in the middle of a text, text after its newline
C10_Witness ==
    /\ last.made /\ last.ret
    /\ last.begin = VersionMarker
    /\ last.str = <<"ret;", ".version", "\n", "ret;">>
    /\ result = <<"ret;">> \o VersionDirective(ptx) \o <<"ret;">>

\* C5: each of the four registration steps is executed at most once, and
\* exactly once as soon as some call of init_llvm has returned.
C5_RegisteredExactlyOnce ==
    \A s \in Steps :
        /\ registered[s] <= 1
        /\ (\E t \in Threads : calls[t] > 0 /\ tpc[t] = "idle") => registered[s] = 1

Finished == lpc \in {"returned", "thrown"}

\* C4: when a call that took Strategy A has returned or has propagated a
\* failure, neither temporary file it created exists.
C4_TempFilesRemoved ==
    (Finished /\ use_system_ptxas) =>
        fs.k[fsrc] = AbsentFile /\ fs.l[flog] = AbsentFile

\* C6: when the assembler invocation has failed, the call does not load the
\* output object and does not return a module: it ends with a failure.
C6_AssemblerFailureReported ==
    err > 0 =>
        /\ "cuModuleLoad" \notin Range(trace)
        /\ ret = NoModule
        /\ lpc # "returned"

\* C7: a call is probed once; after a probe that exited with 0 the call takes
\* no data-based load, and after a failed probe it takes nothing but the
\* data-based load, chooses no temporary name and leaves the temporary
\* directory as it found it.
C7_StrategyByProbe ==
    /\ Len(SelectSeq(trace, LAMBDA x : x = "probe")) <= 1
    /\ probeStatus # -1 =>
         IF probeStatus = 0
         THEN /\ "cuModuleLoadDataEx" \notin Range(trace)
              /\ lpc = "returned" =>
                   trace = <<"probe", "mkstemp", "write", "ptxas", "cuModuleLoad", "unlink">>
         ELSE /\ Range(trace) \subseteq {"probe", "cuModuleLoadDataEx"}
              /\ fs = fsAtEntry /\ fsrc = 0 /\ flog = 0 /\ err = -1
              /\ lpc = "returned" => trace = <<"probe", "cuModuleLoadDataEx">>

\* the probe failed in a call that found files of an earlier call, and the
\* data-based load returned a module
C7_Witness ==
    /\ lpc = "returned" /\ probeStatus = 127 /\ ret = Module(lptx, "data")
    /\ fsAtEntry # EmptyDir

\* C8: when the driver has rejected the assembly as invalid, the call ends by
\* propagating that failure, having written to the output the text it was
\* given and then the diagnostic; it returns no module and has made a single
\* load attempt.
C8_InvalidAssemblySurfaced ==
    /\ exc = "invalid_ptx" =>
         /\ lpc \in {"catch", "thrown"}
         /\ ret = NoModule
         /\ Len(SelectSeq(trace, LAMBDA x : x \in {"cuModuleLoad", "cuModuleLoadDataEx"})) = 1
         /\ lpc = "thrown" =>
              out = <<Cout(lptx), Cerr("It appears that Triton produced invalid PTX code:")>>
    /\ exc # "invalid_ptx" => out = <<>>

\* the file-based load of Strategy A rejected the object
C8_Witness ==
    /\ lpc = "thrown" /\ exc = "invalid_ptx" /\ use_system_ptxas
    /\ trace[Len(trace)] = "cuModuleLoad" /\ Len(out) = 2

=============================================================================
